---- MODULE Spec2Model ----
(***************************************************************************)
(* A model of the document-ingestion bookkeeping of the document AI agent: *)
(* the upload directory, the processed-files ledger (.processed_files.json)*)
(* the vector store, POST /upload/ with its background ingestion,          *)
(* POST /sync/, GET /sync/status, POST /query/, the document loader and    *)
(* the retention cleanup.                                                  *)
(***************************************************************************)
EXTENDS Integers, Sequences, FiniteSets, TLC

(***************************************************************************)
(* Bounds of the model.                                                    *)
(***************************************************************************)
\* largest st_size / st_mtime value of the inputs of the pure checks
MaxStat == 1
\* the clock runs from 0 to MaxTime
MaxTime == 1
\* number of POST /upload/ requests
MaxUploads == 2
\* number of POST /sync/ requests, alone and beside uploads
MaxSyncs == 2

MaxAppSyncs == 1
\* number of writes to the upload directory by other programs (FTP, copy)
MaxWrites == 3
\* number of POST /query/ requests
MaxQueries == 1

(***************************************************************************)
(* Paths.  A path is a record of its parent directory, stem and suffix;    *)
(* str(path) is the text the ledger is keyed by.                           *)
(***************************************************************************)
UPLOAD_DIRECTORY == "data/uploads"

temp_dir == "data/temp_processing"

TrackingName == [stem |-> ".processed_files", suffix |-> ".json"]

PathOf(dir, name) == [parent |-> dir, stem |-> name.stem, suffix |-> name.suffix]

NameStr(name) == name.stem \o name.suffix

str(path) == path.parent \o "/" \o path.stem \o path.suffix

\* str.lower() on the suffixes of the model
lower(s) ==
    CASE s = ".TXT" -> ".txt"
      [] s = ".PDF" -> ".pdf"
      [] OTHER -> s

\* dict.get(key): None when the key is missing
None == -1

Get(d, k) == IF k \in DOMAIN d THEN d[k] ELSE None

EmptyDict == [k \in {} |-> None]

(***************************************************************************)
(* is_file_processed                                                       *)
(***************************************************************************)
is_file_processed_no_mtime(file_path, current_info, tracking_data) ==
    LET file_key == str(file_path) IN
    IF file_key \notin DOMAIN tracking_data THEN FALSE
    ELSE LET tracked_info == tracking_data[file_key] IN
         Get(tracked_info, "size") = current_info["size"]

\* faulty variant: the ledger is looked up by the file name, not the path
is_file_processed_by_name(file_path, current_info, tracking_data) ==
    LET file_key == file_path.stem \o file_path.suffix IN
    IF file_key \notin DOMAIN tracking_data THEN FALSE
    ELSE LET tracked_info == tracking_data[file_key] IN
         /\ Get(tracked_info, "size") = current_info["size"]
         /\ Get(tracked_info, "modified") = current_info["modified"]

is_file_processed(file_path, current_info, tracking_data) ==
    LET file_key == str(file_path) IN
    IF file_key \notin DOMAIN tracking_data THEN FALSE
    ELSE LET tracked_info == tracking_data[file_key] IN
         /\ Get(tracked_info, "size") = current_info["size"]
         /\ Get(tracked_info, "modified") = current_info["modified"]

(***************************************************************************)
(* Files.  A directory entry is a regular file with a content and a        *)
(* modification time, a directory, or nothing.  A file's size is a         *)
(* function of its content; two of the contents have the same size.  The   *)
(* third-party loaders are modelled by their outcome on a content: "bad"   *)
(* is a malformed file (the loader raises), "nodocs" a well-formed file    *)
(* without records or pages (the loader returns no document).             *)
(***************************************************************************)
Contents == {"v1", "v2", "bad", "nodocs"}

SizeOf(content) ==
    CASE content = "v1" -> 1
      [] content = "v2" -> 1
      [] content = "bad" -> 2
      [] OTHER -> 0

NoFile == [kind |-> "none", content |-> "", mtime |-> 0]

File(content, mtime) == [kind |-> "file", content |-> content, mtime |-> mtime]

Dir(mtime) == [kind |-> "dir", content |-> "", mtime |-> mtime]

\* Path.is_file()
is_file(entry) == entry.kind = "file"

(***************************************************************************)
(* LangChainDocumentProcessor                                              *)
(***************************************************************************)
loader_mapping == {".pdf", ".txt", ".docx", ".doc", ".md", ".csv", ".json"}

\* the result of a call: the exception raised ("" when none) and the value
Returned(v) == [raised |-> "", value |-> v]

Raised(e) == [raised |-> e, value |-> <<>>]

\* loader_class(str(file_path)).load() of the third-party loader
loader_load(file_path, content) ==
    CASE content = "bad" -> Raised("loader error")
      [] content = "nodocs" -> Returned(<<>>)
      [] OTHER -> Returned(<<[source |-> str(file_path), page_content |-> content]>>)

\* faulty variant: the suffix is not lower-cased before the lookup
load_single_file_case_sensitive(file_path, content) ==
    IF file_path.suffix \notin loader_mapping THEN Returned(<<>>)
    ELSE loader_load(file_path, content)

\* faulty variant: an unsupported extension is handed to a loader, which raises
load_single_file_raising(file_path, content) ==
    IF lower(file_path.suffix) \notin loader_mapping THEN Raised("unsupported")
    ELSE loader_load(file_path, content)

load_single_file(file_path, content) ==
    LET file_extension == lower(file_path.suffix) IN
    IF file_extension \notin loader_mapping THEN Returned(<<>>)
    ELSE loader_load(file_path, content)

should_process_file(file_path, entry, processed_files) ==
    /\ is_file(entry)
    /\ lower(file_path.suffix) \in loader_mapping
    /\ str(file_path) \notin processed_files

\* the loop of load_documents_from_folder over the paths rglob('*') yields:
\* listing is a sequence of [path, entry]; the result is the documents and
\* the processor's processed_files
RECURSIVE load_loop(_, _, _)
load_loop(listing, documents, processed_files) ==
    IF listing = <<>> THEN [documents |-> documents, processed_files |-> processed_files]
    ELSE LET item == Head(listing)
             r == load_single_file(item.path, item.entry.content)
         IN IF should_process_file(item.path, item.entry, processed_files)
            THEN IF r.raised = ""
                 THEN load_loop(Tail(listing), documents \o r.value,
                                processed_files \cup {str(item.path)})
                 ELSE load_loop(Tail(listing), documents, processed_files)
            ELSE load_loop(Tail(listing), documents, processed_files)

\* faulty variant: a loader's exception is not caught and ends the whole load
load_documents_from_folder_abort(folder_exists, listing) ==
    IF ~folder_exists THEN Raised("ValueError")
    ELSE IF \E i \in 1..Len(listing) :
                /\ should_process_file(listing[i].path, listing[i].entry, {})
                /\ load_single_file(listing[i].path, listing[i].entry.content).raised # ""
         THEN Raised("loader error")
         ELSE Returned(load_loop(listing, <<>>, {}).documents)

load_documents_from_folder(folder_exists, listing) ==
    IF ~folder_exists THEN Raised("ValueError")
    ELSE Returned(load_loop(listing, <<>>, {}).documents)

(***************************************************************************)
(* AdvancedTextSplitter and VectorStoreManager.  The vector store is a bag *)
(* of chunks: a function from the chunks it holds to their multiplicity.   *)
(***************************************************************************)
RECURSIVE split_documents_by_type(_)
split_documents_by_type(documents) ==
    IF documents = <<>> THEN <<>>
    ELSE LET doc == Head(documents)
             chunks == IF doc.page_content = "" THEN <<>>
                       ELSE <<[source |-> doc.source, text |-> doc.page_content]>>
         IN chunks \o split_documents_by_type(Tail(documents))

EmptyStore == [c \in {} |-> 0]

RECURSIVE add_documents(_, _)
add_documents(vector_store, documents) ==
    IF documents = <<>> THEN vector_store
    ELSE LET c == Head(documents)
             st == IF c \in DOMAIN vector_store
                   THEN [vector_store EXCEPT ![c] = @ + 1]
                   ELSE vector_store @@ (c :> 1)
         IN add_documents(st, Tail(documents))

(***************************************************************************)
(* The state.                                                              *)
(***************************************************************************)
NameA == [stem |-> "a", suffix |-> ".txt"]

NameB == [stem |-> "b", suffix |-> ".pdf"]

NameC == [stem |-> "c", suffix |-> ".exe"]

\* the file names of the upload directory
UploadNames == {NameA, NameB, NameC}

VARIABLES
    now,          \* time.time()
    settings_ok,  \* CHUNK_SIZE and CHUNK_OVERLAP let the splitters be built
    fs,           \* the upload directory: name -> entry
    tracking,     \* the ledger file .processed_files.json in the upload directory
    tmp,          \* temp_dir of process_documents
    store,        \* the vector store
    up,           \* the POST /upload/ requests
    task,         \* the background task process_documents of each upload
    sy,           \* the POST /sync/ request in progress, or the last one
    nsync,        \* number of POST /sync/ requests so far
    qy,           \* the POST /query/ requests
    writes,       \* number of writes by other programs so far
    probe,        \* a call of is_file_processed: its arguments and result
    ld,           \* a call of the document loader: its arguments and result
    cl,           \* a call of cleanup_old_files: its circumstances and result
    info          \* a call of FileCleanupManager.get_file_info: its result

vars == <<now, settings_ok, fs, tracking, tmp, store, up, task, sy, nsync, qy,
          writes, probe, ld, cl, info>>

appVars == <<now, settings_ok, fs, tracking, tmp, store, up, task, sy, nsync, qy, writes>>

(***************************************************************************)
(* The ledger file and the helpers of main.py                              *)
(***************************************************************************)
NoTracking == [exists |-> FALSE, mtime |-> 0, data |-> EmptyDict]

\* faulty variant: the tracking file is never read
load_processed_files_tracking_empty(tracking_file) == EmptyDict

\* json.load of the tracking file; {} when it does not exist
load_processed_files_tracking(tracking_file) ==
    IF tracking_file.exists THEN tracking_file.data ELSE EmptyDict

\* faulty variant: the entries on disk that the writer does not hold are kept
save_processed_files_tracking_merging(tracking_data, time) ==
    [exists |-> TRUE, mtime |-> time,
     data |-> [k \in DOMAIN tracking.data \cup DOMAIN tracking_data |->
                 IF k \in DOMAIN tracking_data THEN tracking_data[k] ELSE tracking.data[k]]]

\* json.dump to the tracking file, (re)created at the current time
save_processed_files_tracking(tracking_data, time) ==
    [exists |-> TRUE, mtime |-> time, data |-> tracking_data]

\* file_path.stat() succeeds
stat_ok(entry) == entry.kind # "none"

get_file_info(entry, time) ==
    [size |-> SizeOf(entry.content), modified |-> entry.mtime, processed_at |-> time]

\* the path of the model whose text is s: Path(s)
AllPaths == {PathOf(d, n) : d \in {UPLOAD_DIRECTORY, temp_dir}, n \in UploadNames \cup {TrackingName}}

Path(s) == CHOOSE p \in AllPaths : str(p) = s

NameOf(path) == [stem |-> path.stem, suffix |-> path.suffix]

\* d with d[k] = v
DictSet(d, k, v) == [x \in DOMAIN d \cup {k} |-> IF x = k THEN v ELSE d[x]]

(***************************************************************************)
(* The web framework                                                       *)
(***************************************************************************)
\* faulty variant: every outcome is answered with a success status
http_status_always_ok(raised) == 200

\* the status the framework answers with: 200 for a returned value, 500 for
\* an exception (raised as HTTPException(500) or left unhandled)
http_status(raised) == IF raised = "" THEN 200 ELSE 500

(***************************************************************************)
(* POST /upload/                                                           *)
(***************************************************************************)
\* at most this many files in one upload request
MaxFilesPerUpload == 2

\* the files a client uploads: a text file, well-formed or malformed, and a
\* file of an unsupported type
UploadFiles ==
    {[filename |-> NameA, content |-> c] : c \in {"v1", "bad"}}
        \cup {[filename |-> NameC, content |-> "v1"]}

UploadRequests == UNION {[1..k -> UploadFiles] : k \in 1..MaxFilesPerUpload}

NoTask == [pc |-> "none", file_paths |-> <<>>, tracking_data |-> EmptyDict, error |-> "",
           \* history: the number of chunks the task added to the vector store
           added |-> 0]

\* faulty variant: the paths are collected in the reverse of the request order
RECURSIVE save_uploads_reversed(_, _, _, _)
save_uploads_reversed(files, dir, saved_files, time) ==
    IF files = <<>> THEN [dir |-> dir, saved_files |-> saved_files]
    ELSE LET file == Head(files)
             file_path == PathOf(UPLOAD_DIRECTORY, file.filename)
         IN save_uploads_reversed(Tail(files),
                                  [dir EXCEPT ![file.filename] = File(file.content, time)],
                                  <<str(file_path)>> \o saved_files, time)

\* the loop of upload_files: each file is written to the upload directory
\* and its path appended to saved_files
RECURSIVE save_uploads(_, _, _, _)
save_uploads(files, dir, saved_files, time) ==
    IF files = <<>> THEN [dir |-> dir, saved_files |-> saved_files]
    ELSE LET file == Head(files)
             file_path == PathOf(UPLOAD_DIRECTORY, file.filename)
         IN save_uploads(Tail(files),
                         [dir EXCEPT ![file.filename] = File(file.content, time)],
                         Append(saved_files, str(file_path)), time)

\* the handlers are coroutines without an await: the event loop runs one
\* of them at a time
LoopFree == sy.pc \in {"idle", "done"}

\* faulty variant: the ingestion is scheduled without looking at the object
add_task_unconditional(background_tasks, saved_files) ==
    [NoTask EXCEPT !.pc = "copy", !.file_paths = saved_files]

\* lines 72-73: process_documents is scheduled with saved_files when a
\* background-task object was supplied
add_task(background_tasks, saved_files) ==
    IF background_tasks
    THEN [NoTask EXCEPT !.pc = "copy", !.file_paths = saved_files]
    ELSE NoTask

upload_files(files, background_tasks) ==
    /\ Len(up) < MaxUploads
    /\ LoopFree
    /\ LET r == save_uploads(files, fs, <<>>, now)
           u == Len(up) + 1
       IN /\ fs' = r.dir
          /\ task' = [task EXCEPT ![u] = add_task(background_tasks, r.saved_files)]
          /\ up' = Append(up, [files |-> files,
                               \* history: a background-task object was supplied
                               background_tasks |-> background_tasks,
                               status |-> http_status(""),
                               response |-> [message |-> "Files uploaded and processing started",
                                             files |-> r.saved_files]])
    /\ UNCHANGED <<now, settings_ok, tracking, tmp, store, sy, nsync, qy, writes, probe, ld, cl, info>>

(***************************************************************************)
(* process_documents, the background task of an upload.  It runs in a      *)
(* worker thread, so its steps interleave with everything else.            *)
(***************************************************************************)
NoTmp == [exists |-> FALSE, files |-> [n \in UploadNames |-> NoFile]]

\* the loop of shutil.copy2 into temp_dir; stops at the first missing source
RECURSIVE copy_loop(_, _, _)
copy_loop(file_paths, dir, files) ==
    IF file_paths = <<>> THEN [raised |-> "", files |-> files]
    ELSE LET name == NameOf(Path(Head(file_paths))) IN
         IF ~is_file(dir[name]) THEN [raised |-> "FileNotFoundError", files |-> files]
         ELSE copy_loop(Tail(file_paths), dir, [files EXCEPT ![name] = dir[name]])

\* a directory's entries as a sequence of [path, entry], in the order of names
RECURSIVE ListingOf(_, _, _)
ListingOf(dirname, files, names) ==
    IF names = {} THEN <<>>
    ELSE LET n == CHOOSE x \in names : TRUE IN
         (IF files[n].kind = "none" THEN <<>>
          ELSE <<[path |-> PathOf(dirname, n), entry |-> files[n]]>>)
         \o ListingOf(dirname, files, names \ {n})

Fail(t, e) == [t EXCEPT !.pc = "failed", !.error = e, !.tracking_data = EmptyDict]

\* processor and splitter are built, temp_dir is made, the files are copied
TaskCopy(u) ==
    /\ task[u].pc = "copy"
    /\ IF ~settings_ok
       THEN /\ task' = [task EXCEPT ![u] = Fail(@, "ValueError")]
            /\ tmp' = tmp
       ELSE LET r == copy_loop(task[u].file_paths, fs, tmp.files) IN
            /\ tmp' = [exists |-> TRUE, files |-> r.files]
            /\ task' = [task EXCEPT ![u] =
                           IF r.raised # "" THEN Fail(@, r.raised)
                           ELSE [@ EXCEPT !.pc = "load"]]
    /\ UNCHANGED <<now, settings_ok, fs, tracking, store, up, sy, nsync, qy, writes, probe, ld, cl, info>>

\* lines 277-280: the documents of temp_dir are loaded, split, embedded and
\* added; the embedding provider may fail
TaskIngest(u, provider_ok) ==
    /\ task[u].pc = "load"
    /\ LET r == load_documents_from_folder(tmp.exists,
                                           ListingOf(temp_dir, tmp.files, UploadNames))
           split_documents == IF r.raised # "" THEN <<>>
                              ELSE split_documents_by_type(r.value)
       IN IF r.raised # ""
          THEN /\ task' = [task EXCEPT ![u] = Fail(@, r.raised)]
               /\ store' = store
          ELSE IF split_documents # <<>> /\ ~provider_ok
          THEN /\ task' = [task EXCEPT ![u] = Fail(@, "provider error")]
               /\ store' = store
          ELSE /\ store' = add_documents(store, split_documents)
               /\ task' = [task EXCEPT ![u] = [@ EXCEPT !.pc = "track",
                                                         !.added = Len(split_documents)]]
    /\ UNCHANGED <<now, settings_ok, fs, tracking, tmp, up, sy, nsync, qy, writes, probe, ld, cl, info>>

\* the loop recording every file of the task in the loaded ledger
RECURSIVE track_loop(_, _, _, _)
track_loop(file_paths, dir, tracking_data, time) ==
    IF file_paths = <<>> THEN [raised |-> "", tracking_data |-> tracking_data]
    ELSE LET file_path == Head(file_paths)
             entry == dir[NameOf(Path(file_path))]
         IN IF ~stat_ok(entry)
            THEN [raised |-> "FileNotFoundError", tracking_data |-> tracking_data]
            ELSE track_loop(Tail(file_paths), dir,
                            DictSet(tracking_data, file_path, get_file_info(entry, time)),
                            time)

TaskTrack(u) ==
    /\ task[u].pc = "track"
    /\ LET r == track_loop(task[u].file_paths, fs,
                           load_processed_files_tracking(tracking), now)
       IN task' = [task EXCEPT ![u] =
                      IF r.raised # "" THEN Fail(@, r.raised)
                      ELSE [@ EXCEPT !.pc = "save", !.tracking_data = r.tracking_data]]
    /\ UNCHANGED <<now, settings_ok, fs, tracking, tmp, store, up, sy, nsync, qy, writes, probe, ld, cl, info>>

\* lines 287-291: the ledger is saved, then every file of temp_dir is
\* unlinked and temp_dir removed
TaskFinish(u) ==
    /\ task[u].pc = "save"
    /\ tracking' = save_processed_files_tracking(task[u].tracking_data, now)
    /\ IF tmp.exists
       THEN /\ tmp' = NoTmp
            /\ task' = [task EXCEPT ![u] = [@ EXCEPT !.pc = "done", !.tracking_data = EmptyDict]]
       ELSE /\ tmp' = tmp
            /\ task' = [task EXCEPT ![u] = Fail(@, "FileNotFoundError")]
    /\ UNCHANGED <<now, settings_ok, fs, store, up, sy, nsync, qy, writes, probe, ld, cl, info>>

(***************************************************************************)
(* POST /sync/.  The handler is one coroutine, but the worker threads and  *)
(* other programs writing to the upload directory run between its steps.   *)
(***************************************************************************)
supported_extensions == <<".pdf", ".txt", ".docx", ".doc", ".md", ".csv", ".json">>

\* a set as a sequence, in the order the directory is read
RECURSIVE SeqOfSet(_)
SeqOfSet(S) ==
    IF S = {} THEN <<>>
    ELSE LET x == CHOOSE y \in S : TRUE IN <<x>> \o SeqOfSet(S \ {x})

\* the names in the upload directory, the ledger file among them
DirNames(dir, tracking_file) ==
    {n \in DOMAIN dir : dir[n].kind # "none"}
        \cup (IF tracking_file.exists THEN {TrackingName} ELSE {})

\* upload_dir.glob("*" + ext)
glob(names, ext) == SeqOfSet({n \in names : n.suffix = ext})

RECURSIVE scan_extensions(_, _)
scan_extensions(names, exts) ==
    IF exts = <<>> THEN <<>>
    ELSE glob(names, Head(exts)) \o scan_extensions(names, Tail(exts))

\* faulty variant: the ledger file is not filtered out of the scan
scan_upload_dir_unfiltered(dir, tracking_file) ==
    scan_extensions(DirNames(dir, tracking_file), supported_extensions)

scan_upload_dir(dir, tracking_file) ==
    LET all_files == scan_extensions(DirNames(dir, tracking_file), supported_extensions)
        NotTracking(f) == NameStr(f) # ".processed_files.json"
    IN SelectSeq(all_files, NotTracking)

SyncIdle ==
    [pc |-> "idle", tracking_data |-> EmptyDict, all_files |-> <<>>, new_files |-> <<>>,
     already_processed_files |-> <<>>, failed_files |-> <<>>, processed_files |-> <<>>,
     i |-> 1, documents |-> <<>>, raised |-> "", status |-> 0,
     \* history of the run, for stating the properties
     loaded_ledger |-> EmptyDict, scanned |-> [n \in {} |-> NoFile],
     loaded |-> {}, read |-> [n \in {} |-> NoFile], added |-> {},
     \* history: the number of writes of other programs to the directory
     \* when the run scanned it and when it returned
     writes_at_scan |-> 0, writes_at_return |-> 0]

\* the handler returns its response, or raises HTTPException(500)
SyncResponse(s) ==
    [s EXCEPT !.pc = "done", !.status = http_status(s.raised), !.documents = <<>>,
              !.writes_at_return = writes]

\* the body of the response of a sync that returned
sync_response(s) ==
    [status |-> "success",
     total_files_in_folder |-> Len(s.all_files),
     new_files_processed |-> Len(s.processed_files),
     already_processed |-> Len(s.already_processed_files),
     failed |-> Len(s.failed_files),
     processed_files |-> s.processed_files,
     failed_files |-> s.failed_files]

\* lines 117-156: the ledger is loaded, the directory scanned, the files
\* classified; without new files the response follows at once
SyncScan ==
    /\ nsync < MaxSyncs
    /\ LoopFree
    /\ nsync' = nsync + 1
    /\ LET processed_tracking == load_processed_files_tracking(tracking)
           all_files == scan_upload_dir(fs, tracking)
           IsNew(f) == ~is_file_processed(PathOf(UPLOAD_DIRECTORY, f),
                                          get_file_info(fs[f], now), processed_tracking)
           IsOld(f) == ~IsNew(f)
           new_files == SelectSeq(all_files, IsNew)
           s == [SyncIdle EXCEPT !.tracking_data = processed_tracking,
                                 !.all_files = all_files,
                                 !.new_files = new_files,
                                 !.already_processed_files = SelectSeq(all_files, IsOld),
                                 !.loaded_ledger = processed_tracking,
                                 !.writes_at_scan = writes,
                                 !.scanned = [n \in {all_files[k] : k \in 1..Len(all_files)}
                                                |-> fs[n]]]
       IN sy' = IF new_files = <<>> THEN SyncResponse(s)
                ELSE IF ~settings_ok
                     THEN SyncResponse([s EXCEPT !.raised = "HTTPException"])
                     ELSE [s EXCEPT !.pc = "load"]
    /\ UNCHANGED <<now, settings_ok, fs, tracking, tmp, store, up, task, qy, writes, probe, ld, cl, info>>

\* the next new file, or the saving of the ledger after the last one
NextFile(s) ==
    IF s.i >= Len(s.new_files)
    THEN [s EXCEPT !.pc = "save", !.i = s.i + 1, !.documents = <<>>]
    ELSE [s EXCEPT !.pc = "load", !.i = s.i + 1, !.documents = <<>>]

\* faulty variant: the first failure ends the loop over the new files
FileFailed_abort(s, f, e) ==
    [s EXCEPT !.failed_files = Append(@, [file |-> NameStr(f), error |-> e]),
              !.pc = "save", !.i = s.i + 1, !.documents = <<>>]

FileFailed(s, f, e) ==
    NextFile([s EXCEPT !.failed_files = Append(@, [file |-> NameStr(f), error |-> e])])

\* line 161: processor._load_single_file(file_path)
SyncLoad ==
    /\ sy.pc = "load"
    /\ LET f == sy.new_files[sy.i]
           file_path == PathOf(UPLOAD_DIRECTORY, f)
           r == IF ~is_file(fs[f]) THEN Raised("FileNotFoundError")
                ELSE load_single_file(file_path, fs[f].content)
           s == [sy EXCEPT !.loaded = @ \cup {f}, !.read = DictSet(@, f, fs[f])]
       IN sy' = IF r.raised # "" THEN FileFailed(s, f, r.raised)
                ELSE IF r.value = <<>> THEN FileFailed(s, f, "No documents extracted")
                ELSE [s EXCEPT !.pc = "add", !.documents = r.value]
    /\ UNCHANGED <<now, settings_ok, fs, tracking, tmp, store, up, task, nsync, qy, writes, probe, ld, cl, info>>

\* lines 165-173: the documents are split and added, the file is recorded
SyncAdd(provider_ok) ==
    /\ sy.pc = "add"
    /\ LET f == sy.new_files[sy.i]
           file_path == PathOf(UPLOAD_DIRECTORY, f)
           split_documents == split_documents_by_type(sy.documents)
           Added == IF split_documents # <<>> THEN {f} ELSE {}
       IN IF split_documents # <<>> /\ ~provider_ok
          THEN /\ store' = store
               /\ sy' = FileFailed(sy, f, "provider error")
          ELSE /\ store' = add_documents(store, split_documents)
               /\ sy' = IF ~stat_ok(fs[f])
                        THEN FileFailed([sy EXCEPT !.added = @ \cup Added], f,
                                        "FileNotFoundError")
                        ELSE NextFile([sy EXCEPT
                                 !.added = @ \cup Added,
                                 !.tracking_data = DictSet(@, str(file_path),
                                                           get_file_info(fs[f], now)),
                                 !.processed_files = Append(@, NameStr(f))])
    /\ UNCHANGED <<now, settings_ok, fs, tracking, tmp, up, task, nsync, qy, writes, probe, ld, cl, info>>

\* lines 186-202: the ledger is saved and the response returned
SyncSave ==
    /\ sy.pc = "save"
    /\ tracking' = save_processed_files_tracking(sy.tracking_data, now)
    /\ sy' = SyncResponse(sy)
    /\ UNCHANGED <<now, settings_ok, fs, tmp, store, up, task, nsync, qy, writes, probe, ld, cl, info>>

(***************************************************************************)
(* GET /sync/status: the response the handler returns in the current state *)
(***************************************************************************)
get_sync_status ==
    LET processed_tracking == load_processed_files_tracking(tracking)
        all_files == scan_upload_dir(fs, tracking)
        Done(f) == is_file_processed(PathOf(UPLOAD_DIRECTORY, f),
                                     get_file_info(fs[f], now), processed_tracking)
        Pending(f) == ~Done(f)
    IN [total_files |-> Len(all_files),
        processed_files |-> SelectSeq(all_files, Done),
        pending_files |-> SelectSeq(all_files, Pending)]

(***************************************************************************)
(* POST /query/.  The retriever and the language model are services of     *)
(* other parties: a call of them answers or raises.                        *)
(***************************************************************************)
query_documents(agent_ok) ==
    /\ Len(qy) < MaxQueries
    /\ LoopFree
    /\ LET raised == IF agent_ok THEN "" ELSE "provider error" IN
       qy' = Append(qy, [raised |-> raised, status |-> http_status(raised)])
    /\ UNCHANGED <<now, settings_ok, fs, tracking, tmp, store, up, task, sy, nsync, writes, probe, ld, cl, info>>

(***************************************************************************)
(* The environment: other programs write to the upload directory (FTP,     *)
(* copy tools, which may set any modification time), and time passes.      *)
(***************************************************************************)
ExternalWrite(n, content, mtime) ==
    /\ writes < MaxWrites
    /\ mtime <= now
    /\ fs' = [fs EXCEPT ![n] = File(content, mtime)]
    /\ writes' = writes + 1
    /\ UNCHANGED <<now, settings_ok, tracking, tmp, store, up, task, sy, nsync, qy, probe, ld, cl, info>>

ExternalDelete(n) ==
    /\ writes < MaxWrites
    /\ fs[n].kind # "none"
    /\ fs' = [fs EXCEPT ![n] = NoFile]
    /\ writes' = writes + 1
    /\ UNCHANGED <<now, settings_ok, tracking, tmp, store, up, task, sy, nsync, qy, probe, ld, cl, info>>

Tick ==
    /\ now < MaxTime
    /\ now' = now + 1
    /\ UNCHANGED <<settings_ok, fs, tracking, tmp, store, up, task, sy, nsync, qy, writes, probe, ld, cl, info>>

(***************************************************************************)
(* The application                                                         *)
(***************************************************************************)
NoProbe == [file_path |-> PathOf(UPLOAD_DIRECTORY, NameA),
            current_info |-> [size |-> 0, modified |-> 0],
            tracking_data |-> EmptyDict, called |-> FALSE, result |-> FALSE]

NoLoad == [folder_exists |-> FALSE, listing |-> <<>>, called |-> "", result |-> Returned(<<>>)]

NoInfo == [called |-> FALSE,
           result |-> [total_files |-> 0,
                       files_by_age |-> [b \in {"0-7_days", "8-30_days", "30+_days"} |-> 0],
                       retention_days |-> 30]]

NoCleanup == [called |-> FALSE, undeletable |-> {}, deleted_files |-> <<>>,
              dir |-> [n \in {} |-> NoFile], tracking_file |-> NoTracking]

\* nothing uploaded, nothing synced, nothing asked
Fresh ==
    /\ fs = [n \in UploadNames |-> NoFile]
    /\ tracking = NoTracking
    /\ tmp = NoTmp
    /\ store = EmptyStore
    /\ up = <<>>
    /\ task = [u \in 1..MaxUploads |-> NoTask]
    /\ sy = SyncIdle
    /\ nsync = 0
    /\ qy = <<>>
    /\ writes = 0

Init ==
    /\ now = 0
    /\ settings_ok \in BOOLEAN
    /\ Fresh
    /\ probe = NoProbe
    /\ ld = NoLoad
    /\ cl = NoCleanup
    /\ info = NoInfo

\* the application: uploads with their background tasks, a sync, queries
AppSync ==
    /\ nsync < MaxAppSyncs
    /\ SyncScan

Next ==
    \/ \E files \in UploadRequests, bg \in BOOLEAN : upload_files(files, bg)
    \/ \E u \in 1..MaxUploads : TaskCopy(u)
    \/ \E u \in 1..MaxUploads, ok \in BOOLEAN : TaskIngest(u, ok)
    \/ \E u \in 1..MaxUploads : TaskTrack(u)
    \/ \E u \in 1..MaxUploads : TaskFinish(u)
    \/ AppSync
    \/ SyncLoad
    \/ \E ok \in BOOLEAN : SyncAdd(ok)
    \/ SyncSave
    \/ \E ok \in BOOLEAN : query_documents(ok)
    \/ Tick

Spec == Init /\ [][Next]_vars

\* the upload directory filled by other programs and synced
SyncNames == {NameA, NameB}

NextSync ==
    \/ SyncScan
    \/ SyncLoad
    \/ \E ok \in BOOLEAN : SyncAdd(ok)
    \/ SyncSave
    \/ \E n \in SyncNames, c \in Contents, m \in 0..MaxTime : ExternalWrite(n, c, m)
    \/ \E n \in SyncNames : ExternalDelete(n)
    \/ Tick

SpecSync == Init /\ [][NextSync]_vars

(***************************************************************************)
(* is_file_processed called on its own: every ledger over two paths whose  *)
(* entries hold or lack the fields size and modified.                      *)
(***************************************************************************)
ProbePaths == {PathOf(UPLOAD_DIRECTORY, NameA), PathOf(UPLOAD_DIRECTORY, NameB)}

ProbeEntries == UNION {[D -> 0..MaxStat] : D \in SUBSET {"size", "modified"}}

ProbeLedgers == UNION {[K -> ProbeEntries] : K \in SUBSET {str(p) : p \in ProbePaths}}

InitProbe ==
    /\ now = 0
    /\ settings_ok = TRUE
    /\ Fresh
    /\ ld = NoLoad
    /\ cl = NoCleanup
    /\ info = NoInfo
    /\ \E p \in ProbePaths, size \in 0..MaxStat, modified \in 0..MaxStat,
          tracking_data \in ProbeLedgers :
          probe = [file_path |-> p,
                   current_info |-> [size |-> size, modified |-> modified],
                   tracking_data |-> tracking_data, called |-> FALSE, result |-> FALSE]

CallIsFileProcessed ==
    /\ ~probe.called
    /\ probe' = [probe EXCEPT
                    !.called = TRUE,
                    !.result = is_file_processed(probe.file_path, probe.current_info,
                                                 probe.tracking_data)]
    /\ UNCHANGED <<appVars, ld, cl, info>>

SpecProbe == InitProbe /\ [][CallIsFileProcessed]_vars

(***************************************************************************)
(* The document loader called on a folder of its own, as the tests do: a   *)
(* fresh processor, a folder that exists or not, and the entries rglob     *)
(* yields, at any depth, in the order the directory is read.               *)
(***************************************************************************)
\* at most this many entries in the folder
MaxEntries == 2

test_dir == "data/test_dir"

FolderItems ==
    {[path |-> [parent |-> test_dir, stem |-> "test", suffix |-> ".txt"],
      entry |-> File("v1", 0)],
     [path |-> [parent |-> test_dir \o "/sub", stem |-> "deep", suffix |-> ".pdf"],
      entry |-> File("v2", 0)],
     [path |-> [parent |-> test_dir, stem |-> "test", suffix |-> ".unsupported"],
      entry |-> File("v1", 0)],
     [path |-> [parent |-> test_dir, stem |-> "UPPER", suffix |-> ".TXT"],
      entry |-> File("v1", 0)],
     [path |-> [parent |-> test_dir, stem |-> "broken", suffix |-> ".pdf"],
      entry |-> File("bad", 0)],
     [path |-> [parent |-> test_dir, stem |-> "empty", suffix |-> ".csv"],
      entry |-> File("nodocs", 0)],
     [path |-> [parent |-> test_dir, stem |-> "sub", suffix |-> ""],
      entry |-> Dir(0)],
     [path |-> [parent |-> test_dir, stem |-> "folder", suffix |-> ".txt"],
      entry |-> Dir(0)]}

\* the sequences of distinct items
FolderListings ==
    {l \in UNION {[1..k -> FolderItems] : k \in 0..MaxEntries} :
        \A i, j \in 1..Len(l) : l[i] = l[j] => i = j}

InitLoader ==
    /\ now = 0
    /\ settings_ok = TRUE
    /\ Fresh
    /\ probe = NoProbe
    /\ cl = NoCleanup
    /\ info = NoInfo
    /\ \E l \in FolderListings, e \in BOOLEAN :
          /\ ~e => l = <<>>
          /\ ld = [folder_exists |-> e, listing |-> l, called |-> "",
                   result |-> Returned(<<>>)]

CallLoadFolder ==
    /\ ld.called = ""
    /\ ld' = [ld EXCEPT !.called = "folder",
                        !.result = load_documents_from_folder(ld.folder_exists, ld.listing)]
    /\ UNCHANGED <<appVars, probe, cl, info>>

\* _load_single_file on the first file of the folder
CallLoadSingleFile ==
    /\ ld.called = ""
    /\ ld.listing # <<>>
    /\ is_file(ld.listing[1].entry)
    /\ ld' = [ld EXCEPT !.called = "single",
                        !.result = load_single_file(ld.listing[1].path,
                                                    ld.listing[1].entry.content)]
    /\ UNCHANGED <<appVars, probe, cl, info>>

NextLoader ==
    \/ CallLoadFolder
    \/ CallLoadSingleFile

SpecLoader == InitLoader /\ [][NextLoader]_vars

(***************************************************************************)
(* FileCleanupManager.cleanup_old_files, called on an upload directory     *)
(* that holds files and directories of several ages and, maybe, the ledger *)
(* file.  upload_dir.glob("*") yields the direct entries of the directory, *)
(* hidden files included.  An unlink may raise (a file that may not be     *)
(* removed); the call of unlink is chosen to raise for the names of        *)
(* undeletable.                                                            *)
(***************************************************************************)
retention_days == 30

SecondsPerDay == 86400

EntryOf(dir, tracking_file, n) ==
    IF n = TrackingName
    THEN (IF tracking_file.exists THEN File("", tracking_file.mtime) ELSE NoFile)
    ELSE dir[n]

Unlink(state, n) ==
    IF n = TrackingName THEN [state EXCEPT !.tracking_file = NoTracking]
    ELSE [state EXCEPT !.dir = [@ EXCEPT ![n] = NoFile]]

\* file_age < cutoff_time, where file_age is the modification time
older_than_cutoff(file_age, cutoff_time) == file_age < cutoff_time

\* faulty variant: a path is listed before its unlink is tried, so that a
\* file whose unlink raised is returned as deleted
RECURSIVE cleanup_loop_listing_first(_, _, _, _)
cleanup_loop_listing_first(names, state, cutoff_time, undeletable) ==
    IF names = <<>> THEN state
    ELSE LET file_path == Head(names)
             entry == EntryOf(state.dir, state.tracking_file, file_path)
             listed == [state EXCEPT !.deleted_files =
                           Append(@, str(PathOf(UPLOAD_DIRECTORY, file_path)))]
         IN IF is_file(entry) /\ older_than_cutoff(entry.mtime, cutoff_time)
            THEN cleanup_loop_listing_first(Tail(names),
                     IF file_path \in undeletable THEN listed
                     ELSE [Unlink(listed, file_path) EXCEPT
                              !.deleted_files = listed.deleted_files],
                     cutoff_time, undeletable)
            ELSE cleanup_loop_listing_first(Tail(names), state, cutoff_time, undeletable)

RECURSIVE cleanup_loop(_, _, _, _)
cleanup_loop(names, state, cutoff_time, undeletable) ==
    IF names = <<>> THEN state
    ELSE LET file_path == Head(names)
             entry == EntryOf(state.dir, state.tracking_file, file_path)
         IN IF is_file(entry) /\ older_than_cutoff(entry.mtime, cutoff_time)
                /\ file_path \notin undeletable
            THEN cleanup_loop(Tail(names),
                     [Unlink(state, file_path) EXCEPT
                         !.deleted_files = Append(@, str(PathOf(UPLOAD_DIRECTORY, file_path)))],
                     cutoff_time, undeletable)
            ELSE cleanup_loop(Tail(names), state, cutoff_time, undeletable)

\* faulty variant: a file exactly at the threshold is deleted too
cleanup_old_files_inclusive(dir, tracking_file, current_time, undeletable) ==
    LET cutoff_time == current_time - (retention_days * SecondsPerDay) + 1 IN
    cleanup_loop(SeqOfSet(DirNames(dir, tracking_file)),
                 [dir |-> dir, tracking_file |-> tracking_file, deleted_files |-> <<>>],
                 cutoff_time, undeletable)

cleanup_old_files(dir, tracking_file, current_time, undeletable) ==
    LET cutoff_time == current_time - (retention_days * SecondsPerDay) IN
    cleanup_loop(SeqOfSet(DirNames(dir, tracking_file)),
                 [dir |-> dir, tracking_file |-> tracking_file, deleted_files |-> <<>>],
                 cutoff_time, undeletable)

\* the entries an upload directory may hold under a name
CleanupEntries ==
    {NoFile} \cup {File("v1", m) : m \in 0..MaxStat} \cup {Dir(m) : m \in 0..MaxStat}

InitCleanup ==
    /\ now \in {retention_days * SecondsPerDay + k : k \in 0..(MaxTime + 1)}
    /\ settings_ok = TRUE
    /\ fs \in [UploadNames -> CleanupEntries]
    /\ tracking \in {NoTracking} \cup
                    {[exists |-> TRUE, mtime |-> m, data |-> EmptyDict] : m \in 0..MaxStat}
    /\ tmp = NoTmp
    /\ store = EmptyStore
    /\ up = <<>>
    /\ task = [u \in 1..MaxUploads |-> NoTask]
    /\ sy = SyncIdle
    /\ nsync = 0
    /\ qy = <<>>
    /\ writes = 0
    /\ probe = NoProbe
    /\ ld = NoLoad
    /\ cl = NoCleanup
    /\ info = NoInfo

CleanupOldFiles(undeletable) ==
    /\ ~cl.called
    /\ LET r == cleanup_old_files(fs, tracking, now, undeletable) IN
       /\ fs' = r.dir
       /\ tracking' = r.tracking_file
       /\ cl' = [called |-> TRUE, undeletable |-> undeletable,
                 deleted_files |-> r.deleted_files,
                 \* history: the directory before the call
                 dir |-> fs, tracking_file |-> tracking]
    /\ UNCHANGED <<now, settings_ok, tmp, store, up, task, sy, nsync, qy, writes, probe, ld, info>>

NextCleanup == \E undeletable \in SUBSET (UploadNames \cup {TrackingName}) :
                   CleanupOldFiles(undeletable)

SpecCleanup == InitCleanup /\ [][NextCleanup]_vars

(***************************************************************************)
(* FileCleanupManager.get_file_info called on its own, on directories      *)
(* whose entries have ages around the limits of the buckets.  The total    *)
(* size of the report is not part of the model.                            *)
(***************************************************************************)
\* faulty variant: a file of exactly 7 days falls into the second bucket
age_bucket_exclusive(age_seconds) ==
    IF age_seconds < 7 * SecondsPerDay THEN "0-7_days"
    ELSE IF age_seconds <= 30 * SecondsPerDay THEN "8-30_days"
    ELSE "30+_days"

\* lines 92-98: age_days = age_seconds / 86400 is compared with 7 and 30
age_bucket(age_seconds) ==
    IF age_seconds <= 7 * SecondsPerDay THEN "0-7_days"
    ELSE IF age_seconds <= 30 * SecondsPerDay THEN "8-30_days"
    ELSE "30+_days"

FileCleanupManager_get_file_info(dir, tracking_file, current_time) ==
    LET files == DirNames(dir, tracking_file)
        Counted(b) ==
            {f \in files :
                /\ is_file(EntryOf(dir, tracking_file, f))
                /\ age_bucket(current_time - EntryOf(dir, tracking_file, f).mtime) = b}
    IN [total_files |-> Cardinality(files),
        files_by_age |-> [b \in {"0-7_days", "8-30_days", "30+_days"} |->
                             Cardinality(Counted(b))],
        retention_days |-> retention_days]

\* modification times 30 days, 7 days and no time before the call, and
\* a second around each
InfoTimes == {0, 1, 23 * SecondsPerDay, 23 * SecondsPerDay + 1, 30 * SecondsPerDay}

InfoEntries == {NoFile, Dir(0)} \cup {File("v1", m) : m \in InfoTimes}

InitFileInfo ==
    /\ now \in {30 * SecondsPerDay + k : k \in 0..MaxTime}
    /\ settings_ok = TRUE
    /\ fs \in [UploadNames -> InfoEntries]
    /\ tracking \in {NoTracking} \cup
                    {[exists |-> TRUE, mtime |-> m, data |-> EmptyDict] :
                        m \in {0, 23 * SecondsPerDay + 1}}
    /\ tmp = NoTmp
    /\ store = EmptyStore
    /\ up = <<>>
    /\ task = [u \in 1..MaxUploads |-> NoTask]
    /\ sy = SyncIdle
    /\ nsync = 0
    /\ qy = <<>>
    /\ writes = 0
    /\ probe = NoProbe
    /\ ld = NoLoad
    /\ cl = NoCleanup
    /\ info = NoInfo

GetFileInfo ==
    /\ ~info.called
    /\ info' = [called |-> TRUE,
                result |-> FileCleanupManager_get_file_info(fs, tracking, now)]
    /\ UNCHANGED <<appVars, probe, ld, cl>>

NextFileInfo == GetFileInfo

SpecFileInfo == InitFileInfo /\ [][NextFileInfo]_vars

(***************************************************************************)
(* The properties                                                          *)
(***************************************************************************)
Range(seq) == {seq[i] : i \in 1..Len(seq)}

\* the ledger key of a file of the upload directory
KeyOf(n) == "data/uploads/" \o n.stem \o n.suffix

\* C1: is_file_processed returns true if and only if the ledger has an entry
\* under str(path) whose size equals the file's current size and whose
\* modified time equals the file's current modification time; without an
\* entry, with another size or time, or with an entry lacking a field, it
\* returns false.
C1_IsFileProcessedIff ==
    probe.called =>
        LET key == KeyOf(probe.file_path)
            ledger == probe.tracking_data
        IN probe.result <=>
              /\ key \in DOMAIN ledger
              /\ "size" \in DOMAIN ledger[key]
              /\ "modified" \in DOMAIN ledger[key]
              /\ ledger[key]["size"] = probe.current_info["size"]
              /\ ledger[key]["modified"] = probe.current_info["modified"]

\* C1, reached: the call answered true on a ledger that holds two entries
C1_AnsweredTrue ==
    /\ probe.called
    /\ probe.result
    /\ Cardinality(DOMAIN probe.tracking_data) = 2

\* C1, reached: the call answered false although the sizes agree, for an
\* entry without the field modified
C1_AnsweredFalseFieldMissing ==
    /\ probe.called
    /\ ~probe.result
    /\ KeyOf(probe.file_path) \in DOMAIN probe.tracking_data
    /\ DOMAIN probe.tracking_data[KeyOf(probe.file_path)] = {"size"}
    /\ probe.tracking_data[KeyOf(probe.file_path)]["size"] = probe.current_info["size"]

\* the documents of the loadable supported regular files of a listing, in
\* the order of the listing
RECURSIVE DocumentsIn(_)
DocumentsIn(listing) ==
    IF listing = <<>> THEN <<>>
    ELSE LET item == Head(listing)
             loadable == /\ item.entry.kind = "file"
                         /\ item.path.suffix \in {".txt", ".TXT", ".pdf", ".csv"}
                         /\ item.entry.content \in {"v1", "v2"}
         IN (IF loadable
             THEN <<[source |-> item.path.parent \o "/" \o item.path.stem \o item.path.suffix,
                     page_content |-> item.entry.content]>>
             ELSE <<>>) \o DocumentsIn(Tail(listing))

CleanupNames == UploadNames \cup {TrackingName}

\* a regular file whose age, the current time minus its modification time,
\* exceeds the retention threshold
PastRetention(entry) ==
    /\ entry.kind = "file"
    /\ now - entry.mtime > 30 * 86400

DiffersFromLedger(n) ==
    LET key == KeyOf(n)
        seen == sy.scanned[n]
        ledger == sy.loaded_ledger
    IN \/ key \notin DOMAIN ledger
       \/ ledger[key]["size"] # SizeOf(seen.content)
       \/ ledger[key]["modified"] # seen.mtime

FailedNames == {sy.failed_files[i].file : i \in 1..Len(sy.failed_files)}

Failed(n, e) == [file |-> NameStr(n), error |-> e] \in Range(sy.failed_files)

\* the ledger holds the same for key in both, an entry or none
SameEntry(d1, d2, key) ==
    /\ key \in DOMAIN d1 <=> key \in DOMAIN d2
    /\ key \in DOMAIN d1 => d1[key] = d2[key]

\* C6: during POST /sync/ a new file whose loading, splitting or insertion
\* raises is recorded in failed_files with the error string of the
\* exception, a file whose loader returns no document with the error "No
\* documents extracted"; such a file gets no ledger entry in that run, and
\* every other new file of the run is still processed.
C6_FailuresRecordedOthersProcessed ==
    (sy.pc = "done" /\ sy.status = 200 /\ sy.new_files # <<>>) =>
        \A n \in Range(sy.new_files) :
            /\ n \in sy.loaded
            /\ sy.read[n].kind = "none" => Failed(n, "FileNotFoundError")
            /\ (sy.read[n].kind = "file" /\ sy.read[n].content = "bad")
                  => Failed(n, "loader error")
            /\ (sy.read[n].kind = "file" /\ sy.read[n].content = "nodocs")
                  => Failed(n, "No documents extracted")
            /\ NameStr(n) \in FailedNames
                  => /\ SameEntry(tracking.data, sy.loaded_ledger, KeyOf(n))
                     /\ NameStr(n) \notin Range(sy.processed_files)
            /\ NameStr(n) \notin FailedNames
                  => /\ NameStr(n) \in Range(sy.processed_files)
                     /\ n \in sy.added
                     /\ KeyOf(n) \in DOMAIN tracking.data

\* C6, reached: the first new file of a sync failed in its loader, the
\* second was processed and recorded
C6_FirstFailedSecondProcessed ==
    /\ sy.pc = "done"
    /\ sy.new_files = <<NameB, NameA>>
    /\ sy.failed_files = <<[file |-> "b.pdf", error |-> "loader error"]>>
    /\ sy.processed_files = <<"a.txt">>
    /\ KeyOf(NameB) \notin DOMAIN tracking.data
    /\ KeyOf(NameA) \in DOMAIN tracking.data

\* the chunk a sync adds for the file n with the given content
ChunkOf(n, content) == [source |-> KeyOf(n), text |-> content]

\* the ledger on disk records n with the size and modification time the
\* file has now, but the content the file has now was never added to the
\* vector store: the file was rewritten with the same size and time
RewrittenUnnoticed(n) ==
    /\ fs[n].kind = "file"
    /\ fs[n].content \in {"v1", "v2"}
    /\ KeyOf(n) \in DOMAIN tracking.data
    /\ tracking.data[KeyOf(n)]["size"] = SizeOf(fs[n].content)
    /\ tracking.data[KeyOf(n)]["modified"] = fs[n].mtime
    /\ ChunkOf(n, fs[n].content) \notin DOMAIN store

\* ... and no sync that began before the rewrite is still about to load it
Skipped(n) ==
    /\ RewrittenUnnoticed(n)
    /\ ~(sy.pc \in {"load", "add", "save"} /\ n \in Range(sy.new_files))

ReportedProcessed(n) == n \in Range(get_sync_status.processed_files)

\* C7: a file rewritten with another content but the same size and
\* modification time after it was recorded in the ledger is silently
\* skipped: as long as the file stays as it is, no later POST /sync/
\* re-ingests it (its content never reaches the vector store), and
\* GET /sync/status keeps reporting it as processed.
C7_RewrittenFileSkipped ==
    [][\A n \in SyncNames :
          /\ Skipped(n) => ReportedProcessed(n)
          /\ Skipped(n)' => ReportedProcessed(n)'
          /\ (Skipped(n) /\ fs'[n] = fs[n]) =>
                /\ Skipped(n)'
                /\ n \notin sy'.loaded \ sy.loaded
                /\ nsync' # nsync => n \in Range(sy'.already_processed_files)]_vars

\* C7, reached: a file was ingested and recorded by a first sync, then
\* rewritten with another content of the same size and time; a second sync
\* saw the new content, classified the file as already processed and
\* returned; the new content is not in the vector store
C7_SecondSyncSkippedRewrite ==
    /\ nsync = 2
    /\ sy.pc = "done"
    /\ Skipped(NameA)
    /\ NameA \in Range(sy.already_processed_files)
    /\ sy.scanned[NameA] = fs[NameA]
    /\ fs[NameA].content = "v2"
    /\ ChunkOf(NameA, "v1") \in DOMAIN store

\* the files of upload u all have an extension outside the loader mapping
OnlyUnsupported(u) ==
    \A i \in 1..Len(up[u].files) :
        lower(up[u].files[i].filename.suffix) \notin loader_mapping

\* C4: an upload whose files all have an unsupported extension completes
\* its ingestion with no document added to the vector store and without an
\* exception.
C4_UnsupportedUploadAddsNothing ==
    \A u \in 1..Len(up) :
        (settings_ok /\ OnlyUnsupported(u)) =>
            /\ task[u].pc # "failed"
            /\ task[u].added = 0

\* the last file of the request with the given name
LastWritten(files, name) ==
    LET last == CHOOSE i \in 1..Len(files) :
                    /\ files[i].filename = name
                    /\ \A j \in (i + 1)..Len(files) : files[j].filename # name
    IN files[last]

\* C8: the response of POST /upload/ lists, in request order, the saved
\* path (upload directory joined with the file name) of every file of the
\* request, and when it is returned each listed file is in the upload
\* directory with the content the request gave it.
C8_UploadReturnsSavedPaths ==
    [][Len(up') > Len(up) =>
          LET r == up'[Len(up')] IN
          /\ r.status = 200
          /\ Len(r.response.files) = Len(r.files)
          /\ \A i \in 1..Len(r.files) :
                LET name == r.files[i].filename IN
                /\ r.response.files[i] = "data/uploads/" \o name.stem \o name.suffix
                /\ fs'[name] = File(LastWritten(r.files, name).content, now)]_vars

\* C8, reached: an upload of two files of different names has returned
C8_TwoFilesUploaded ==
    \E u \in 1..Len(up) :
        /\ Len(up[u].files) = 2
        /\ up[u].files[1].filename # up[u].files[2].filename
        /\ Len(up[u].response.files) = 2

\* the copies of the ledger held by the ingestions that are about to save
SaverCopies ==
    {task[u].tracking_data : u \in {v \in 1..MaxUploads : task[v].pc = "save"}}
        \cup (IF sy.pc = "save" THEN {sy.tracking_data} ELSE {})

\* C9: the ledger is not protected against concurrent access.  Every save
\* replaces the ledger on disk by the copy the saving ingestion loaded
\* earlier plus its own entries, whatever was written in between, so an
\* interleaving of two ingestions leaves a ledger without the entries of
\* one of them.
C9_SaveOverwritesLedger ==
    [][tracking' # tracking =>
          /\ tracking'.exists
          /\ tracking'.data \in SaverCopies]_vars

\* C9, reached: a background task of an upload and a sync both saved the
\* ledger, and the ledger on disk lacks an entry the task wrote
C9_LostUpdate ==
    \E u \in 1..Len(up) :
        /\ task[u].pc = "done"
        /\ sy.pc = "done"
        /\ sy.status = 200
        /\ sy.processed_files # <<>>
        /\ \E k \in Range(task[u].file_paths) : k \notin DOMAIN tracking.data

\* C10 as stated: no query or ingestion, the ingestion started by an
\* upload included, ends in failure while its caller got a success response.
C10_NoFailureAfterSuccess ==
    /\ \A i \in 1..Len(qy) : qy[i].raised # "" => qy[i].status # 200
    /\ sy.pc = "done" /\ sy.raised # "" => sy.status # 200
    /\ \A u \in 1..Len(up) : task[u].pc = "failed" => up[u].status # 200

\* C10: POST /query/ and POST /sync/ either run to completion and answer
\* with success, or raise an error that becomes an HTTP failure; the
\* ingestion started by POST /upload/ runs after the success response of
\* the upload, which a later failure of the ingestion does not change.
C10_RequestFailuresReported ==
    /\ \A i \in 1..Len(qy) : (qy[i].raised # "") <=> (qy[i].status # 200)
    /\ sy.pc = "done" => ((sy.raised # "") <=> (sy.status # 200))
    /\ \A u \in 1..Len(up) : task[u].pc # "none" => up[u].status = 200

\* C10, reached: a query and a sync raised and were answered with a
\* failure status, and an ingestion failed after its upload was answered
\* with success
C10_FailuresOfEachKind ==
    /\ Len(qy) = 1 /\ qy[1].raised # "" /\ qy[1].status = 500
    /\ sy.pc = "done" /\ sy.raised # "" /\ sy.status = 500
    /\ \E u \in 1..Len(up) : task[u].pc = "failed" /\ up[u].status = 200

\* the supported files of a directory, the ledger file not among them
SupportedIn(dir) ==
    {n \in DOMAIN dir :
        /\ dir[n].kind # "none"
        /\ n.suffix \in Range(supported_extensions)
        /\ NameStr(n) # ".processed_files.json"}

\* the names a returned sync counted as processed and as failed
ProcessedNames(s) == {n \in Range(s.all_files) : NameStr(n) \in Range(s.processed_files)}

FailedIn(s) ==
    {n \in Range(s.all_files) :
        \E i \in 1..Len(s.failed_files) : s.failed_files[i].file = NameStr(n)}

\* the counts of the response of s partition the files it scanned
CountsPartition(s) ==
    LET r == sync_response(s)
        already == Range(s.already_processed_files)
    IN /\ Len(s.all_files) = Cardinality(Range(s.all_files))
       /\ Range(s.all_files) = ProcessedNames(s) \cup already \cup FailedIn(s)
       /\ ProcessedNames(s) \cap already = {}
       /\ ProcessedNames(s) \cap FailedIn(s) = {}
       /\ already \cap FailedIn(s) = {}
       /\ r.new_files_processed = Cardinality(ProcessedNames(s))
       /\ r.already_processed = Cardinality(already)
       /\ r.failed = Cardinality(FailedIn(s))
       /\ r.total_files_in_folder
             = r.new_files_processed + r.already_processed + r.failed
       /\ Len(r.processed_files) = r.new_files_processed
       /\ Len(r.failed_files) = r.failed

\* C12: a POST /sync/ scans exactly the supported files of the upload
\* directory, the tracking file excluded, and when it returns each scanned
\* file is counted in exactly one of new_files_processed, already_processed
\* and failed, so that total_files_in_folder is their sum and the lengths of
\* processed_files and failed_files are new_files_processed and failed.
C12_CountsPartitionScannedFiles ==
    [][/\ nsync' # nsync => Range(sy'.all_files) = SupportedIn(fs)
       /\ (sy'.pc = "done" /\ sy'.status = 200) => CountsPartition(sy')]_vars

\* C12, reached: a sync that found the ledger file in the directory
\* returned with one file already processed and one failed
C12_OneAlreadyProcessedOneFailed ==
    /\ sy.pc = "done"
    /\ sy.status = 200
    /\ sy.loaded_ledger # EmptyDict
    /\ Len(sy.all_files) = 2
    /\ Len(sy.already_processed_files) = 1
    /\ Len(sy.failed_files) = 1
    /\ sy.processed_files = <<>>

\* the saved paths of a request, in request order
SavedPaths(files) ==
    [i \in 1..Len(files) |-> "data/uploads/" \o files[i].filename.stem
                                \o files[i].filename.suffix]

\* C11: the ingestion after an upload is optional and fire-and-forget.  The
\* step that answers a POST /upload/ schedules the ingestion only when a
\* background-task object was supplied, with exactly the saved paths of the
\* request, all of them written by then; no other step schedules an
\* ingestion or changes the paths of one, so it is scheduled at most once;
\* and the response of an upload stays what it was whatever its ingestion
\* does later.
C11_IngestionOptionalFireAndForget ==
    [][/\ Len(up') > Len(up) =>
             LET u == Len(up') IN
             /\ task'[u].pc = (IF up'[u].background_tasks THEN "copy" ELSE "none")
             /\ up'[u].background_tasks =>
                   /\ task'[u].file_paths = SavedPaths(up'[u].files)
                   /\ \A i \in 1..Len(up'[u].files) :
                         is_file(fs'[up'[u].files[i].filename])
       /\ \A u \in 1..MaxUploads :
             /\ u > Len(up') => task'[u] = NoTask
             /\ u <= Len(up) =>
                   /\ up'[u] = up[u]
                   /\ task'[u].file_paths = task[u].file_paths
                   /\ task'[u].pc = "copy" => task[u].pc = "copy"
                   /\ task'[u].pc = "none" <=> task[u].pc = "none"]_vars

\* C11, reached: an upload of two files with a background-task object was
\* answered with success and its ingestion failed later; another upload
\* without the object has no ingestion
C11_OneIngestionFailedOneNotScheduled ==
    \E u, v \in 1..Len(up) :
        /\ up[u].background_tasks
        /\ Len(up[u].files) = 2
        /\ task[u].pc = "failed"
        /\ up[u].status = 200
        /\ ~up[v].background_tasks
        /\ task[v].pc = "none"

\* the chunks of the vector store extracted from the file of the ledger
\* key, read in the upload directory or from its copy in temp_dir
DocumentsOf(key) ==
    {c \in DOMAIN store :
        c.source \in {key, str(PathOf(temp_dir, NameOf(Path(key))))}}

\* C13: a path has an entry in the ledger only if documents extracted from
\* that file were added to the vector store, for the entries written by
\* POST /sync/ and for those written by process_documents alike.
C13_EntryOnlyIfDocumentsAdded ==
    \A key \in DOMAIN tracking.data : DocumentsOf(key) # {}

\* the files a returned sync reported as processed or already processed
Reported(s) == ProcessedNames(s) \cup Range(s.already_processed_files)

\* the step is the scan of a sync that follows a sync that returned
ScanAfterReturn == nsync' # nsync /\ sy.pc = "done" /\ sy.status = 200

\* the next sync takes none of the files the last one reported as new
ReportedNotNew == Range(sy'.new_files) \cap Reported(sy) = {}

\* the next sync leaves alone what the last one reported
NoneReingested ==
    /\ ReportedNotNew
    /\ Range(sy'.new_files) \subseteq FailedIn(sy)
    /\ Reported(sy) \subseteq Range(sy'.already_processed_files)

CountOf(c) == IF c \in DOMAIN store THEN store[c] ELSE 0

\* how often the content of the file n was added to the vector store, by a
\* sync reading the upload directory or by a task reading its copy
TimesAdded(n, content) ==
    CountOf([source |-> str(PathOf(UPLOAD_DIRECTORY, n)), text |-> content])
        + CountOf([source |-> str(PathOf(temp_dir, n)), text |-> content])

\* C15: over any interleaving of POST /upload/, with its background
\* ingestion, and POST /sync/, one version of a file is added to the vector
\* store at most once.  Stated for the runs with a single upload, in which
\* every file of the upload directory has had one version only.
C15_VersionAddedAtMostOnce ==
    Len(up) = 1 =>
        \A n \in UploadNames, content \in Contents : TimesAdded(n, content) <= 1

\* C16: the size and modification time a sync stores in the ledger entry
\* of a file are those of the version whose content it loaded and added,
\* also when the file is rewritten between the load and the recording.
C16_EntryIsOfLoadedVersion ==
    \A n \in DOMAIN sy.read :
        NameStr(n) \in Range(sy.processed_files) =>
            /\ sy.tracking_data[KeyOf(n)]["size"] = SizeOf(sy.read[n].content)
            /\ sy.tracking_data[KeyOf(n)]["modified"] = sy.read[n].mtime

\* C17: cleanup_old_files never deletes the ledger file
\* .processed_files.json of the upload directory, whatever its age.
C17_LedgerSurvivesCleanup ==
    cl.called => tracking = cl.tracking_file

\* the call removed the entry of the name n
RemovedByCall(n) ==
    /\ EntryOf(cl.dir, cl.tracking_file, n).kind # "none"
    /\ EntryOf(fs, tracking, n) = NoFile

ListedAsDeleted(n) == str(PathOf(UPLOAD_DIRECTORY, n)) \in Range(cl.deleted_files)

\* C18: cleanup_old_files returns exactly the paths it deleted: a path is
\* in the returned list, once, if and only if the call removed the file; a
\* file whose unlink raised is not listed and is still there, and the old
\* files that can be unlinked are deleted whichever unlink raised.
C18_ReturnsExactlyTheDeleted ==
    cl.called =>
        /\ Len(cl.deleted_files) = Cardinality(Range(cl.deleted_files))
        /\ \A p \in Range(cl.deleted_files) :
              \E n \in CleanupNames : p = str(PathOf(UPLOAD_DIRECTORY, n))
        /\ \A n \in CleanupNames :
              /\ ListedAsDeleted(n) <=> RemovedByCall(n)
              /\ n \in cl.undeletable =>
                    /\ ~ListedAsDeleted(n)
                    /\ EntryOf(fs, tracking, n) = EntryOf(cl.dir, cl.tracking_file, n)
              /\ (PastRetention(EntryOf(cl.dir, cl.tracking_file, n))
                    /\ n \notin cl.undeletable) => ListedAsDeleted(n)

\* C18, reached: the unlink of one old file raised, the three other old
\* files of the directory were deleted and are the returned list
C18_OneUnlinkRaisedOthersDeleted ==
    /\ cl.called
    /\ cl.undeletable = {NameA}
    /\ PastRetention(cl.dir[NameA])
    /\ fs[NameA] = cl.dir[NameA]
    /\ Len(cl.deleted_files) = 3
    /\ \A n \in CleanupNames \ {NameA} : RemovedByCall(n) /\ ListedAsDeleted(n)

\* the regular files of the upload directory, the ledger file among them
RegularFiles == {n \in CleanupNames : EntryOf(fs, tracking, n).kind = "file"}

AgeOf(n) == now - EntryOf(fs, tracking, n).mtime

\* every regular file is counted in the bucket of its age, and in no other
BucketsCountRegularFiles ==
    info.called =>
        LET by_age == info.result.files_by_age IN
        /\ by_age["0-7_days"]
              = Cardinality({n \in RegularFiles : AgeOf(n) <= 7 * 86400})
        /\ by_age["8-30_days"]
              = Cardinality({n \in RegularFiles :
                                AgeOf(n) > 7 * 86400 /\ AgeOf(n) <= 30 * 86400})
        /\ by_age["30+_days"]
              = Cardinality({n \in RegularFiles : AgeOf(n) > 30 * 86400})
        /\ by_age["0-7_days"] + by_age["8-30_days"] + by_age["30+_days"]
              = Cardinality(RegularFiles)

\* C19: FileCleanupManager.get_file_info counts every regular file of the
\* upload directory in exactly one age bucket, "0-7_days" up to 7 days,
\* "8-30_days" above 7 and up to 30 days, "30+_days" above 30 days; the
\* three counts sum to the number of regular files, and total_files equals
\* that sum.
C19_BucketsSumToTotalFiles ==
    /\ BucketsCountRegularFiles
    /\ info.called => info.result.total_files = Cardinality(RegularFiles)

====
